---------------------------- MODULE Spec2Model ----------------------------
(***************************************************************************)
(* A model of the two components of the HTML formatter that carry          *)
(* invariants: the layered CacheManager (src/src/utils/cache_manager.py)   *)
(* and the HTML / CSS sanitizers (src/src/utils/sanitizers.py,             *)
(* src/src/utils/css_sanitizer.py).                                        *)
(*                                                                         *)
(* Spec      : the CacheManager as a state machine (sequential calls).     *)
(* SpecHtml  : HTMLSanitizer.sanitize applied to bounded token sequences,  *)
(*             once and then again to its own output.                      *)
(* SpecCss   : CSSSanitizer.sanitize_css applied to bounded CSS inputs.    *)
(*                                                                         *)
(* Time is an integer clock `now`.  A tier's own expiry (diskcache's       *)
(* expire_time, the redis key ttl) is stamped a moment after the entry's   *)
(* 'timestamp' (time.time() is read again inside the library), so at the   *)
(* integer instants of the model a row is visible as long as               *)
(* now <= timestamp + ttl.                                                 *)
(***************************************************************************)
EXTENDS Integers, Sequences, FiniteSets, TLC

VARIABLES
    memory_cache,   \* self.memory_cache : physical key -> entry
    disk_avail,     \* self.disk_cache is not None
    disk_store,     \* rows of the diskcache: key -> [entry, expire_time]
    redis_avail,    \* self.redis_cache is not None
    redis_store,    \* keys of the redis db: key -> [json, expire_at]
    stats,          \* self.stats
    now,            \* time.time()
    calls,          \* history: the number of completed calls
    last,           \* history: the call that completed last
    latest,         \* history: per physical key, its latest set / removal
    san,            \* HTMLSanitizer.sanitize: its input and its results
    css,            \* CSSSanitizer.sanitize_css: its input and its result
    thr             \* SpecThreads: where each thread stands in its call

cache_vars == <<memory_cache, disk_avail, disk_store, redis_avail, redis_store,
                stats, now, calls, last, latest>>

vars == <<cache_vars, san, css, thr>>

---------------------------------------------------------------------------
(* Bounds of the model *)

MaxTime == 2
MaxTtl == 1
MaxCalls == 4

(* Program constants *)

KEY_HASH_LIMIT == 250
DIGEST_WIDTH == 64
NO_EXPIRE == -1

---------------------------------------------------------------------------
(* Keys *)

LowerChar(c) ==
    CASE c = "A" -> "a"
      [] c = "B" -> "b"
      [] OTHER -> c

LongKey == [i \in 1..(KEY_HASH_LIMIT + 1) |-> "b"]
LongKeyUpper == [i \in 1..(KEY_HASH_LIMIT + 1) |-> "B"]

Keys == { <<"A", " ">>, <<"a", "_">> }

\* the keys of SpecKeys: the two spellings of one short key and two long keys
\* that differ in case only
KeysWide == Keys \cup { LongKey, LongKeyUpper }

\* hashlib.sha256(key.encode()).hexdigest(): 64 hex digits; the digest reads
\* the characters as they are, and on the keys of the model the first
\* character tells the digests apart.
HexOf(c) ==
    CASE c = "a" -> "1"
      [] c = "A" -> "2"
      [] c = "b" -> "3"
      [] c = "B" -> "4"
      [] OTHER -> "0"

Sha256Hex(key) ==
    [i \in 1..DIGEST_WIDTH |-> IF i = 1 THEN HexOf(key[1]) ELSE "0"]

NormalizeKeyNoFold(key) ==
    IF Len(key) > KEY_HASH_LIMIT THEN Sha256Hex(key) ELSE key

NormalizeKey(key) ==
    IF Len(key) > KEY_HASH_LIMIT
    THEN Sha256Hex(key)
    ELSE [i \in 1..Len(key) |-> LowerChar(IF key[i] = " " THEN "_" ELSE key[i])]

PhysKeys == { NormalizeKey(k) : k \in Keys }
PhysKeysWide == { NormalizeKey(k) : k \in KeysWide }

---------------------------------------------------------------------------
(* Values and entries *)

Str(d) == [kind |-> "str", data |-> d]
Bytes(d) == [kind |-> "bytes", data |-> d]
NoneValue == [kind |-> "none", data |-> ""]

Values == { Str("v1"), Bytes("v2") }

\* in SpecKeys the value stored under a key names the key it was stored for
KeyTag(key) ==
    IF key = LongKey THEN "long-b"
    ELSE IF key = LongKeyUpper THEN "long-B"
    ELSE "short"
Ttls == 0..MaxTtl

MakeEntry(v, t, ttl) == [value |-> v, timestamp |-> t, ttl |-> ttl]

IsExpiredAtTtl(entry, t) == (t - entry.timestamp) >= entry.ttl

IsExpired(entry, t) == (t - entry.timestamp) > entry.ttl

\* json.dumps(entry) raises TypeError for a bytes payload
JsonSerializable(entry) == entry.value.kind = "str"
JsonDumps(entry) == <<"json", entry.value.data, entry.timestamp, entry.ttl>>
JsonLoads(doc) == [value |-> Str(doc[2]), timestamp |-> doc[3], ttl |-> doc[4]]

---------------------------------------------------------------------------
(* Dictionaries as functions on the set of keys present *)

Put(d, k, x) == [j \in (DOMAIN d) \cup {k} |-> IF j = k THEN x ELSE d[j]]
Remove(d, k) == [j \in (DOMAIN d) \ {k} |-> d[j]]
Empty == [j \in {} |-> 0]

\* diskcache.Cache.get: the row, unless it is absent or its expire_time passed
DiskVisible(disk, ck, t) ==
    /\ ck \in DOMAIN disk
    /\ (disk[ck].expire_time = NO_EXPIRE \/ t <= disk[ck].expire_time)

\* redis GET: the value, unless the key is absent or its ttl ran out
RedisVisible(redis, ck, t) ==
    /\ ck \in DOMAIN redis
    /\ t <= redis[ck].expire_at


---------------------------------------------------------------------------
(* Statistics *)

ZeroStats ==
    [hits |-> 0, misses |-> 0, memory_hits |-> 0, disk_hits |-> 0, redis_hits |-> 0]

CountHitNoTier(st, tier) == [st EXCEPT !.hits = @ + 1]

CountHit(st, tier) ==
    CASE tier = "memory" -> [st EXCEPT !.hits = @ + 1, !.memory_hits = @ + 1]
      [] tier = "disk"   -> [st EXCEPT !.hits = @ + 1, !.disk_hits = @ + 1]
      [] tier = "redis"  -> [st EXCEPT !.hits = @ + 1, !.redis_hits = @ + 1]

CountMiss(st) == [st EXCEPT !.misses = @ + 1]

\* get_stats()['total_requests']
TotalRequests(st) == st.hits + st.misses

---------------------------------------------------------------------------
(* The try blocks: for each call, the tiers whose operations run inside a  *)
(* try whose except clause does not raise again.  get: lines 84-94 and     *)
(* 98-112; set: 132-154; delete: 170-180; clear: 186-203.                  *)

NoTry(op) == {}

TryGuarded(op) ==
    CASE op = "get" -> {"disk", "redis"}
      [] op = "set" -> {"memory", "disk", "redis"}
      [] op = "delete" -> {"disk", "redis"}
      [] op = "clear" -> {"memory", "disk", "redis"}
      [] OTHER -> {}

\* an exception reaches the caller when a tier outside the try blocks raised
Propagates(op, faulted) == faulted \ TryGuarded(op) # {}

---------------------------------------------------------------------------
(* CacheManager.get *)

\* the promotions of a hit in a slower tier
NoPromoteToMemory(mem, ck, entry) == mem

RefreshPromoteToMemory(mem, ck, entry) ==
    Put(mem, ck, [entry EXCEPT !.timestamp = now])

PromoteToMemory(mem, ck, entry) == Put(mem, ck, entry)

PromoteToDisk(disk, ck, entry) ==
    Put(disk, ck, [entry |-> entry, expire_time |-> NO_EXPIRE])

\* Level 1: the memory probe; an expired entry is deleted
MemoryHit(mem, ck, t) == ck \in DOMAIN mem /\ ~IsExpired(mem[ck], t)

MemoryAfterProbe(mem, ck, t) ==
    IF ck \in DOMAIN mem /\ IsExpired(mem[ck], t) THEN Remove(mem, ck) ELSE mem

\* Level 2: the disk probe; f.dget: self.disk_cache.get raises
DiskHit(disk, ck, t, f) ==
    /\ disk_avail
    /\ ~f.dget
    /\ DiskVisible(disk, ck, t)
    /\ ~IsExpired(disk[ck].entry, t)

\* Level 3: the redis probe; f.rget: self.redis_cache.get raises
RedisFound(redis, ck, t, f) ==
    /\ redis_avail
    /\ ~f.rget
    /\ RedisVisible(redis, ck, t)
    /\ ~IsExpired(JsonLoads(redis[ck].json), t)

\* The outcome of get(key) at time t; f.dset: the promotion write
\* self.disk_cache.set raises, which the redis level's except clause catches
GetOutcome(ck, t, mem, disk, redis, st, f) ==
    IF MemoryHit(mem, ck, t)
    THEN [mem |-> mem, disk |-> disk, stats |-> CountHit(st, "memory"),
          value |-> mem[ck].value, tier |-> "memory", probed |-> {"memory"}]
    ELSE
    LET mem1 == MemoryAfterProbe(mem, ck, t)
        p2 == IF disk_avail THEN {"memory", "disk"} ELSE {"memory"}
    IN
    IF DiskHit(disk, ck, t, f)
    THEN [mem |-> PromoteToMemory(mem1, ck, disk[ck].entry), disk |-> disk,
          stats |-> CountHit(st, "disk"),
          value |-> disk[ck].entry.value, tier |-> "disk", probed |-> p2]
    ELSE
    LET p3 == IF redis_avail THEN p2 \cup {"redis"} ELSE p2
    IN
    IF RedisFound(redis, ck, t, f)
    THEN LET entry == JsonLoads(redis[ck].json)
             mem3 == PromoteToMemory(mem1, ck, entry)
         IN IF disk_avail /\ f.dset
            THEN [mem |-> mem3, disk |-> disk, stats |-> CountMiss(st),
                  value |-> NoneValue, tier |-> "none", probed |-> p3]
            ELSE [mem |-> mem3,
                  disk |-> IF disk_avail THEN PromoteToDisk(disk, ck, entry) ELSE disk,
                  stats |-> CountHit(st, "redis"),
                  value |-> entry.value, tier |-> "redis", probed |-> p3]
    ELSE [mem |-> mem1, disk |-> disk, stats |-> CountMiss(st),
          value |-> NoneValue, tier |-> "none", probed |-> p3]

\* which library calls of one get may raise
GetFaults ==
    { f \in [dget : BOOLEAN, rget : BOOLEAN, dset : BOOLEAN] :
        /\ (f.dget => disk_avail)
        /\ (f.rget => redis_avail)
        /\ (f.dset => disk_avail /\ redis_avail) }

\* the tiers of which a library call raised during one get
GetFaulted(f) ==
    (IF f.dget \/ f.dset THEN {"disk"} ELSE {}) \cup (IF f.rget THEN {"redis"} ELSE {})

\* `last` describes the call that completed last, as long as the clock has not
\* moved since: the calls "immediately after" it see it.
NoCall ==
    [op |-> "none", key |-> <<>>, value |-> NoneValue, ok |-> FALSE,
     tier |-> "none", probed |-> {}, attempted |-> <<>>, failed |-> {},
     follows |-> "none", raised |-> FALSE]

Get(key) ==
    /\ calls < MaxCalls
    /\ calls' = calls + 1
    /\ \E f \in GetFaults :
        LET ck == NormalizeKey(key)
            o == GetOutcome(ck, now, memory_cache, disk_store, redis_store, stats, f)
        IN /\ memory_cache' = o.mem
           /\ disk_store' = o.disk
           /\ stats' = o.stats
           /\ last' = [NoCall EXCEPT !.op = "get", !.key = ck, !.value = o.value,
                          !.ok = (o.tier # "none"), !.tier = o.tier,
                          !.probed = o.probed,
                          !.raised = Propagates("get", GetFaulted(f)),
                          !.follows = IF last.op = "get" /\ last.key = ck
                                      THEN last.tier ELSE "none"]
    /\ UNCHANGED <<disk_avail, redis_avail, redis_store, now, latest, san, css, thr>>

---------------------------------------------------------------------------
(* CacheManager.set *)

MemoryAfterSet(mem, ck, entry) == Put(mem, ck, entry)

\* self.disk_cache.set(cache_key, entry, expire=ttl); dfail: it raises
DiskAfterSet(disk, ck, entry, t, dfail) ==
    IF disk_avail /\ ~dfail
    THEN Put(disk, ck, [entry |-> entry, expire_time |-> t + entry.ttl])
    ELSE disk

\* json.dumps(entry) raises on bytes, SETEX refuses a ttl that is not positive
RedisSetRaises(entry, rfail) ==
    rfail \/ ~JsonSerializable(entry) \/ entry.ttl <= 0

RedisAfterSetAbort(redis, ck, entry, t, dfail, rfail) ==
    IF redis_avail /\ ~dfail /\ ~RedisSetRaises(entry, rfail)
    THEN Put(redis, ck, [json |-> JsonDumps(entry), expire_at |-> t + entry.ttl])
    ELSE redis

\* the redis level runs whatever the disk level did
RedisAfterSet(redis, ck, entry, t, dfail, rfail) ==
    IF redis_avail /\ ~RedisSetRaises(entry, rfail)
    THEN Put(redis, ck, [json |-> JsonDumps(entry), expire_at |-> t + entry.ttl])
    ELSE redis

SetAttempted ==
    <<"memory">> \o (IF disk_avail THEN <<"disk">> ELSE <<>>)
                 \o (IF redis_avail THEN <<"redis">> ELSE <<>>)

SetFailed(entry, dfail, rfail) ==
    (IF disk_avail /\ dfail THEN {"disk"} ELSE {})
    \cup (IF redis_avail /\ RedisSetRaises(entry, rfail) THEN {"redis"} ELSE {})

Set(key, value, ttl) ==
    /\ calls < MaxCalls
    /\ calls' = calls + 1
    /\ \E dfail \in (IF disk_avail THEN BOOLEAN ELSE {FALSE}),
       rfail \in (IF redis_avail THEN BOOLEAN ELSE {FALSE}) :
        LET ck == NormalizeKey(key)
            entry == MakeEntry(value, now, ttl)
            failed == SetFailed(entry, dfail, rfail)
        IN /\ memory_cache' = MemoryAfterSet(memory_cache, ck, entry)
           /\ disk_store' = DiskAfterSet(disk_store, ck, entry, now, dfail)
           /\ redis_store' = RedisAfterSet(redis_store, ck, entry, now, dfail, rfail)
           /\ last' = [NoCall EXCEPT !.op = "set", !.key = ck, !.ok = TRUE,
                          !.attempted = SetAttempted, !.failed = failed,
                          !.raised = Propagates("set", failed)]
           /\ latest' = [latest EXCEPT ![ck] =
                          [kind |-> "set", value |-> value, time |-> now,
                           ttl |-> ttl]]
           /\ UNCHANGED <<disk_avail, redis_avail, stats, now, san, css, thr>>

---------------------------------------------------------------------------
(* CacheManager.delete *)

MemoryAfterDelete(mem, ck) == IF ck \in DOMAIN mem THEN Remove(mem, ck) ELSE mem

\* self.disk_cache.delete(cache_key); dfail: it raises
DiskAfterDelete(disk, ck, dfail) ==
    IF disk_avail /\ ~dfail /\ ck \in DOMAIN disk THEN Remove(disk, ck) ELSE disk

\* self.redis_cache.delete(cache_key); rfail: it raises
RedisAfterDelete(redis, ck, rfail) ==
    IF redis_avail /\ ~rfail /\ ck \in DOMAIN redis THEN Remove(redis, ck) ELSE redis

Delete(key) ==
    /\ calls < MaxCalls
    /\ calls' = calls + 1
    /\ \E dfail \in (IF disk_avail THEN BOOLEAN ELSE {FALSE}),
       rfail \in (IF redis_avail THEN BOOLEAN ELSE {FALSE}) :
        LET ck == NormalizeKey(key)
            failed == (IF dfail THEN {"disk"} ELSE {}) \cup (IF rfail THEN {"redis"} ELSE {})
        IN /\ memory_cache' = MemoryAfterDelete(memory_cache, ck)
           /\ disk_store' = DiskAfterDelete(disk_store, ck, dfail)
           /\ redis_store' = RedisAfterDelete(redis_store, ck, rfail)
           /\ last' = [NoCall EXCEPT !.op = "delete", !.key = ck,
                          !.ok = (ck \in DOMAIN memory_cache),
                          !.attempted = SetAttempted, !.failed = failed,
                          !.raised = Propagates("delete", failed)]
           /\ latest' = [latest EXCEPT ![ck] =
                          [kind |-> "deleted", value |-> NoneValue, time |-> now,
                           ttl |-> 0]]
           /\ UNCHANGED <<disk_avail, redis_avail, stats, now, san, css, thr>>

---------------------------------------------------------------------------
(* CacheManager.clear: one try block, so a raising disk clear skips the
   redis flush *)

Clear ==
    /\ calls < MaxCalls
    /\ calls' = calls + 1
    /\ \E dfail \in (IF disk_avail THEN BOOLEAN ELSE {FALSE}),
       rfail \in (IF redis_avail THEN BOOLEAN ELSE {FALSE}) :
        LET failed == IF dfail THEN {"disk"} ELSE IF rfail THEN {"redis"} ELSE {}
        IN /\ memory_cache' = Empty
           /\ disk_store' = IF disk_avail /\ ~dfail THEN Empty ELSE disk_store
           /\ redis_store' = IF redis_avail /\ ~dfail /\ ~rfail THEN Empty ELSE redis_store
           /\ last' = [NoCall EXCEPT !.op = "clear", !.ok = (failed = {}),
                          !.failed = failed,
                          !.raised = Propagates("clear", failed)]
           /\ latest' = [k \in PhysKeys |->
                          [kind |-> "cleared", value |-> NoneValue, time |-> now,
                           ttl |-> 0]]
           /\ UNCHANGED <<disk_avail, redis_avail, stats, now, san, css, thr>>

---------------------------------------------------------------------------
(* CacheManager.cleanup_expired: the memory tier only *)

ExpiredKeys(mem, t) == { k \in DOMAIN mem : IsExpired(mem[k], t) }

CleanupExpired ==
    LET expired_keys == ExpiredKeys(memory_cache, now)
    IN /\ calls < MaxCalls
       /\ calls' = calls + 1
       /\ expired_keys # {}
       /\ memory_cache' = [k \in (DOMAIN memory_cache) \ expired_keys |-> memory_cache[k]]
       /\ last' = [NoCall EXCEPT !.op = "cleanup", !.ok = TRUE]
       /\ UNCHANGED <<disk_avail, disk_store, redis_avail, redis_store, stats, now,
                      latest, san, css, thr>>

---------------------------------------------------------------------------
(* The clock *)

Tick ==
    /\ now < MaxTime
    /\ now' = now + 1
    /\ last' = NoCall
    /\ UNCHANGED <<memory_cache, disk_avail, disk_store, redis_avail, redis_store,
                   stats, calls, latest, san, css, thr>>

---------------------------------------------------------------------------
(* CacheManager.__init__: each slower tier may fail to initialise *)

SanIdle ==
    [pc |-> "idle", input |-> <<>>, out |-> <<>>, again |-> <<>>,
     raised |-> "none", fault |-> "none", ran |-> {}]
CssIdle == [pc |-> "idle", input |-> <<>>, out |-> <<>>]

Threads == {"t1", "t2"}
\* todo: the counters the running get has still to increment; reg: the value
\* of the counter it has read; gets, sets: the calls the thread has completed
ThrIdle ==
    [t \in Threads |->
        [pc |-> "idle", entry |-> MakeEntry(NoneValue, 0, 0), keys |-> {},
         todo |-> <<>>, reg |-> 0, gets |-> 0, sets |-> 0]]

NeverSet == [kind |-> "none", value |-> NoneValue, time |-> 0, ttl |-> 0]

Init ==
    /\ memory_cache = Empty
    /\ disk_avail \in BOOLEAN
    /\ disk_store = Empty
    /\ redis_avail \in BOOLEAN
    /\ redis_store = Empty
    /\ stats = ZeroStats
    /\ now = 0
    /\ calls = 0
    /\ last = NoCall
    /\ latest = [k \in PhysKeys |-> NeverSet]
    /\ san = SanIdle
    /\ css = CssIdle
    /\ thr = ThrIdle

Next ==
    \/ \E k \in Keys : Get(k)
    \/ \E k \in Keys, v \in Values, ttl \in Ttls : Set(k, v, ttl)
    \/ \E k \in Keys : Delete(k)
    \/ Clear
    \/ CleanupExpired
    \/ Tick

Spec == Init /\ [][Next]_vars

---------------------------------------------------------------------------
(* SpecThreads: two threads call get, set, delete and cleanup_expired on   *)
(* one CacheManager without slower tiers.  The code takes no lock, so a    *)
(* thread may be preempted between any two statements; each action below   *)
(* is one statement on self.memory_cache.  pc "raised": the statement      *)
(* raised KeyError and the call ended with it.  self.stats[c] += 1 is a    *)
(* read of the counter followed by a write of the value read plus one.     *)

ThreadKey == NormalizeKey(<<"a", "_">>)

Goto(t, pc) == [thr EXCEPT ![t].pc = pc]

ThreadFrame == <<disk_avail, disk_store, redis_avail, redis_store, last, latest, san, css>>

\* set, line 133: self.memory_cache[cache_key] = entry
ThrSet(t) ==
    /\ thr[t].pc = "idle" /\ calls < MaxCalls
    /\ calls' = calls + 1
    /\ \E ttl \in Ttls :
          memory_cache' = MemoryAfterSet(memory_cache, ThreadKey, MakeEntry(Str("v1"), now, ttl))
    /\ thr' = [thr EXCEPT ![t].sets = @ + 1]
    /\ UNCHANGED <<stats, now, ThreadFrame>>

\* get, line 72: if cache_key in self.memory_cache; a miss ends at line 115
ThrGetCheck(t) ==
    /\ thr[t].pc = "idle" /\ calls < MaxCalls
    /\ calls' = calls + 1
    /\ IF ThreadKey \in DOMAIN memory_cache
       THEN thr' = Goto(t, "get_read")
       ELSE thr' = [thr EXCEPT ![t].pc = "count_load", ![t].todo = <<"misses">>]
    /\ UNCHANGED <<memory_cache, stats, now, ThreadFrame>>

\* get, line 73: entry = self.memory_cache[cache_key]
ThrGetRead(t) ==
    /\ thr[t].pc = "get_read"
    /\ IF ThreadKey \in DOMAIN memory_cache
       THEN thr' = [thr EXCEPT ![t].pc = "get_test", ![t].entry = memory_cache[ThreadKey]]
       ELSE thr' = Goto(t, "raised")
    /\ UNCHANGED <<memory_cache, stats, now, calls, ThreadFrame>>

\* get, lines 74-78: a live entry is a hit
ThrGetTest(t) ==
    /\ thr[t].pc = "get_test"
    /\ IF ~IsExpired(thr[t].entry, now)
       THEN thr' = [thr EXCEPT ![t].pc = "count_load", ![t].todo = <<"hits", "memory_hits">>]
       ELSE thr' = Goto(t, "get_del")
    /\ UNCHANGED <<memory_cache, stats, now, calls, ThreadFrame>>

\* get, line 80: del self.memory_cache[cache_key], then the miss of line 115
ThrGetDel(t) ==
    /\ thr[t].pc = "get_del"
    /\ IF ThreadKey \in DOMAIN memory_cache
       THEN /\ memory_cache' = Remove(memory_cache, ThreadKey)
            /\ thr' = [thr EXCEPT ![t].pc = "count_load", ![t].todo = <<"misses">>]
       ELSE /\ thr' = Goto(t, "raised")
            /\ UNCHANGED memory_cache
    /\ UNCHANGED <<stats, now, calls, ThreadFrame>>

\* get, lines 75, 76, 115: self.stats[c] += 1, the read of the counter
ThrCountLoad(t) ==
    /\ thr[t].pc = "count_load"
    /\ thr' = [thr EXCEPT ![t].pc = "count_store", ![t].reg = stats[Head(thr[t].todo)]]
    /\ UNCHANGED <<memory_cache, stats, now, calls, ThreadFrame>>

\* get, lines 75, 76, 115: self.stats[c] += 1, the write; after the last
\* counter the get returns
ThrCountStore(t) ==
    /\ thr[t].pc = "count_store"
    /\ stats' = [stats EXCEPT ![Head(thr[t].todo)] = thr[t].reg + 1]
    /\ thr' = IF Tail(thr[t].todo) = <<>>
              THEN [thr EXCEPT ![t].pc = "idle", ![t].todo = <<>>, ![t].reg = 0,
                               ![t].gets = @ + 1]
              ELSE [thr EXCEPT ![t].pc = "count_load", ![t].todo = Tail(@), ![t].reg = 0]
    /\ UNCHANGED <<memory_cache, now, calls, ThreadFrame>>

\* delete, line 164: if cache_key in self.memory_cache
ThrDeleteCheck(t) ==
    /\ thr[t].pc = "idle" /\ calls < MaxCalls
    /\ calls' = calls + 1
    /\ thr' = IF ThreadKey \in DOMAIN memory_cache THEN Goto(t, "delete_del") ELSE thr
    /\ UNCHANGED <<memory_cache, stats, now, ThreadFrame>>

\* delete, line 165: del self.memory_cache[cache_key]
ThrDeleteDel(t) ==
    /\ thr[t].pc = "delete_del"
    /\ IF ThreadKey \in DOMAIN memory_cache
       THEN memory_cache' = Remove(memory_cache, ThreadKey) /\ thr' = Goto(t, "idle")
       ELSE memory_cache' = memory_cache /\ thr' = Goto(t, "raised")
    /\ UNCHANGED <<stats, now, calls, ThreadFrame>>

\* cleanup_expired, lines 221-226: the scan that collects expired_keys
ThrCleanupScan(t) ==
    /\ thr[t].pc = "idle" /\ calls < MaxCalls
    /\ calls' = calls + 1
    /\ LET expired_keys == ExpiredKeys(memory_cache, now)
       IN thr' = IF expired_keys = {} THEN thr
                 ELSE [thr EXCEPT ![t].pc = "cleanup_del", ![t].keys = expired_keys]
    /\ UNCHANGED <<memory_cache, stats, now, ThreadFrame>>

\* cleanup_expired, lines 228-229: del self.memory_cache[key] for each of them
ThrCleanupDel(t) ==
    /\ thr[t].pc = "cleanup_del"
    /\ \E k \in thr[t].keys :
          IF k \in DOMAIN memory_cache
          THEN /\ memory_cache' = Remove(memory_cache, k)
               /\ thr' = [thr EXCEPT ![t].keys = @ \ {k},
                                     ![t].pc = IF thr[t].keys = {k} THEN "idle" ELSE "cleanup_del"]
          ELSE /\ memory_cache' = memory_cache
               /\ thr' = [thr EXCEPT ![t].pc = "raised", ![t].keys = {}]
    /\ UNCHANGED <<stats, now, calls, ThreadFrame>>

ThrTick ==
    /\ now < MaxTime
    /\ now' = now + 1
    /\ UNCHANGED <<memory_cache, stats, calls, thr, ThreadFrame>>

InitThreads ==
    /\ memory_cache = Empty
    /\ disk_avail = FALSE
    /\ disk_store = Empty
    /\ redis_avail = FALSE
    /\ redis_store = Empty
    /\ stats = ZeroStats
    /\ now = 0
    /\ calls = 0
    /\ last = NoCall
    /\ latest = [k \in PhysKeys |-> NeverSet]
    /\ san = SanIdle
    /\ css = CssIdle
    /\ thr = ThrIdle

NextThreads ==
    \/ \E t \in Threads :
          \/ ThrSet(t)
          \/ ThrGetCheck(t) \/ ThrGetRead(t) \/ ThrGetTest(t) \/ ThrGetDel(t)
          \/ ThrCountLoad(t) \/ ThrCountStore(t)
          \/ ThrDeleteCheck(t) \/ ThrDeleteDel(t)
          \/ ThrCleanupScan(t) \/ ThrCleanupDel(t)
    \/ ThrTick

SpecThreads == InitThreads /\ [][NextThreads]_vars

---------------------------------------------------------------------------
(* SpecKeys: set, get and delete on keys of both kinds, the clock standing *)
(* still                                                                   *)

InitKeys ==
    /\ memory_cache = Empty
    /\ disk_avail \in BOOLEAN
    /\ disk_store = Empty
    /\ redis_avail \in BOOLEAN
    /\ redis_store = Empty
    /\ stats = ZeroStats
    /\ now = 0
    /\ calls = 0
    /\ last = NoCall
    /\ latest = [k \in PhysKeysWide |-> NeverSet]
    /\ san = SanIdle
    /\ css = CssIdle
    /\ thr = ThrIdle

SetKey == \E k \in KeysWide : Set(k, Str(KeyTag(k)), MaxTtl)

GetKey == \E k \in KeysWide : Get(k)

DeleteKey == \E k \in KeysWide : Delete(k)

NextKeys == SetKey \/ GetKey \/ DeleteKey

SpecKeys == InitKeys /\ [][NextKeys]_vars

---------------------------------------------------------------------------
(* HTML documents: a document is the sequence of its tokens, a text being  *)
(* cut into the pieces the patterns of the final sweep are made of         *)

MaxHtmlLen == 4

Text(a) == [kind |-> "text", tag |-> "", attrs |-> {}, text |-> a]
Open(tag, attrs) == [kind |-> "open", tag |-> tag, attrs |-> attrs, text |-> ""]
Close(tag) == [kind |-> "close", tag |-> tag, attrs |-> {}, text |-> ""]

\* "big" stands for a text of max_text_length - 1 characters
TextAtoms == {"x", "java", "script:", "XSS", "vbscript:", "big"}

HrefValues == {"http://x", "javascript:x", "mailto:x"}

HtmlTokens ==
    { Text(a) : a \in TextAtoms }
    \cup { Open("p", {}), Open("p", {<<"onclick", "x">>}), Open("p", {<<"class", "c">>}),
           Open("p", {<<"style", "color: red">>}), Open("script", {}) }
    \cup { Open("a", {<<"href", v>>}) : v \in HrefValues }
    \cup { Close("p"), Close("a"), Close("script") }

\* balanced markup: no element inside an element of the same tag, only text
\* inside a script element
RECURSIVE WellFormedFrom(_, _, _)
WellFormedFrom(doc, i, stack) ==
    IF i > Len(doc) THEN stack = <<>>
    ELSE LET tok == doc[i] IN
         CASE tok.kind = "text" -> WellFormedFrom(doc, i + 1, stack)
           [] tok.kind = "open" ->
                /\ \A j \in 1..Len(stack) : stack[j] # tok.tag /\ stack[j] # "script"
                /\ WellFormedFrom(doc, i + 1, <<tok.tag>> \o stack)
           [] tok.kind = "close" ->
                /\ stack # <<>>
                /\ Head(stack) = tok.tag
                /\ WellFormedFrom(doc, i + 1, Tail(stack))

WellFormed(doc) == WellFormedFrom(doc, 1, <<>>)

HtmlInputs ==
    { d \in UNION { [1..n -> HtmlTokens] : n \in 0..MaxHtmlLen } : WellFormed(d) }

\* SecurityConfig.max_text_length
MAX_TEXT_LENGTH == 1000000

\* the number of characters of the strings of the model
StrLen(str) ==
    CASE str = "" -> 0
      [] str = "big" -> MAX_TEXT_LENGTH - 1
      [] str = "javascript:x" -> 12
      [] str = "mailto:x" -> 8
      [] str \in {"x", "p", "a", "c", "#"} -> 1
      [] str \in {"XSS", "rel"} -> 3
      [] str \in {"java", "href"} -> 4
      [] str \in {"class", "style"} -> 5
      [] str = "vbscript:" -> 9
      [] str = "color: red" -> 10
      [] str = "script" -> 6
      [] str \in {"script:", "onclick"} -> 7
      [] str \in {"nofollow", "http://x"} -> 8

\* name="value" and the space before it
RECURSIVE AttrsLen(_)
AttrsLen(attrs) ==
    IF attrs = {} THEN 0
    ELSE LET a == CHOOSE b \in attrs : TRUE
         IN 4 + StrLen(a[1]) + StrLen(a[2]) + AttrsLen(attrs \ {a})

TokenLen(tok) ==
    CASE tok.kind = "text" -> StrLen(tok.text)
      [] tok.kind = "close" -> 3 + StrLen(tok.tag)
      [] tok.kind = "open" -> 2 + StrLen(tok.tag) + AttrsLen(tok.attrs)

\* len(html_content)
RECURSIVE ContentLength(_)
ContentLength(doc) ==
    IF doc = <<>> THEN 0 ELSE TokenLen(Head(doc)) + ContentLength(Tail(doc))

---------------------------------------------------------------------------
(* SecurityConfig *)

AllowedHtmlTags ==
    {"p", "br", "strong", "em", "u", "h1", "h2", "h3", "h4", "h5", "h6",
     "ul", "ol", "li", "blockquote", "a", "img", "div", "span", "code", "pre"}

\* allowed_html_attributes[tag], without the '*' entry
AllowedHtmlAttributes(tag) ==
    CASE tag = "a" -> {"href", "title"}
      [] tag = "img" -> {"src", "alt", "title", "width", "height"}
      [] tag \in {"div", "span", "p"} -> {"class", "id"}
      [] OTHER -> {}

\* allowed_html_attributes['*']
WildcardHtmlAttributes == {"style"}

---------------------------------------------------------------------------
(* _validate_content, the check made before the passes: it logs a warning  *)
(* for the first pattern of its list that the lower-cased content holds,   *)
(* and changes and raises nothing.  Of the list the texts of the model     *)
(* spell 'javascript:' and 'vbscript:'.                                    *)

SuspiciousPatterns == << <<Text("java"), Text("script:")>>, <<Text("vbscript:")>> >>

---------------------------------------------------------------------------
(* First pass: bleach.clean(html, tags, attributes, strip=True,            *)
(* strip_comments=True).  The tags that are not allowed are stripped and   *)
(* what they enclose stays; an attribute stays when the entry of its tag   *)
(* or the '*' entry names it; the value of a style attribute is blanked,   *)
(* no css_sanitizer being passed.                                          *)

\* the scheme of a URL, "" for a relative one
UrlScheme(value) ==
    CASE value = "http://x" -> "http"
      [] value = "javascript:x" -> "javascript"
      [] value = "mailto:x" -> "mailto"
      [] OTHER -> ""

\* bleach's default protocols, no `protocols` argument being passed; a URL
\* without a scheme passes too
BleachProtocols == {"http", "https", "mailto"}

UrlAttributes == {"href", "src"}

BleachUriAllowed(a) ==
    a[1] \in UrlAttributes => UrlScheme(a[2]) \in BleachProtocols \cup {""}

BleachAttributes(tag, attrs) ==
    { IF a[1] = "style" THEN <<"style", "">> ELSE a :
        a \in { b \in attrs :
                  /\ b[1] \in AllowedHtmlAttributes(tag) \cup WildcardHtmlAttributes
                  /\ BleachUriAllowed(b) } }

RECURSIVE BleachClean(_)
BleachClean(doc) ==
    IF doc = <<>> THEN <<>>
    ELSE LET tok == Head(doc)
             rest == BleachClean(Tail(doc))
         IN CASE tok.kind = "text" -> <<tok>> \o rest
              [] tok.tag \notin AllowedHtmlTags -> rest
              [] tok.kind = "open" ->
                    <<Open(tok.tag, BleachAttributes(tok.tag, tok.attrs))>> \o rest
              [] OTHER -> <<tok>> \o rest

---------------------------------------------------------------------------
(* Second pass: html_sanitizer.Sanitizer(settings).sanitize, with the      *)
(* settings of HTMLSanitizer.__init__: the attributes without the '*'      *)
(* entry, 'empty': set() (no element may be empty) and 'add_nofollow':     *)
(* True (rel="nofollow" on the links).                                     *)

\* html_sanitizer's sanitize_href: an href that starts with none of "/",
\* "mailto:", "http:", "https:", "#", "tel:" becomes "#"
SanitizeHref(value) ==
    IF UrlScheme(value) \in {"http", "https", "mailto", "tel"} THEN value ELSE "#"

SanitizerAttributes(tag, attrs) ==
    { IF a[1] = "href" THEN <<"href", SanitizeHref(a[2])>> ELSE a :
        a \in { b \in attrs : b[1] \in AllowedHtmlAttributes(tag) } }

EverywhereNofollow(tok) ==
    IF tok.kind = "open"
    THEN [tok EXCEPT !.attrs = { a \in @ : a[1] # "rel" } \cup {<<"rel", "nofollow">>}]
    ELSE tok

AddNofollow(tok) ==
    IF tok.kind = "open" /\ tok.tag = "a" /\ \E a \in tok.attrs : a[1] = "href"
    THEN [tok EXCEPT !.attrs = { a \in @ : a[1] # "rel" } \cup {<<"rel", "nofollow">>}]
    ELSE tok

RECURSIVE FilterElements(_)
FilterElements(doc) ==
    IF doc = <<>> THEN <<>>
    ELSE LET tok == Head(doc)
             rest == FilterElements(Tail(doc))
         IN CASE tok.kind = "text" -> <<tok>> \o rest
              [] tok.tag \notin AllowedHtmlTags -> rest
              [] tok.kind = "open" ->
                    <<Open(tok.tag, SanitizerAttributes(tok.tag, tok.attrs))>> \o rest
              [] OTHER -> <<tok>> \o rest

\* an element with no text and no child is dropped, and so is the element
\* that this empties
RECURSIVE DropEmptyElements(_)
DropEmptyElements(doc) ==
    IF \E i \in 1..(Len(doc) - 1) : doc[i].kind = "open" /\ doc[i + 1].kind = "close"
    THEN LET i == CHOOSE j \in 1..(Len(doc) - 1) :
                    doc[j].kind = "open" /\ doc[j + 1].kind = "close"
         IN DropEmptyElements(SubSeq(doc, 1, i - 1) \o SubSeq(doc, i + 2, Len(doc)))
    ELSE doc

HtmlSanitizerPass(doc) ==
    LET kept == DropEmptyElements(FilterElements(doc))
    IN [i \in 1..Len(kept) |-> AddNofollow(kept[i])]

---------------------------------------------------------------------------
(* The final sweep: re.sub(pattern, '', text) once for each pattern, in    *)
(* the order of the list                                                   *)

\* re.sub of a literal: the matches are found left to right in the text as
\* it was, none overlapping the one before, and all are cut out at once
RECURSIVE SubLiteral(_, _)
SubLiteral(text, pat) ==
    IF Len(text) < Len(pat) THEN text
    ELSE IF SubSeq(text, 1, Len(pat)) = pat
         THEN SubLiteral(SubSeq(text, Len(pat) + 1, Len(text)), pat)
         ELSE <<Head(text)>> \o SubLiteral(Tail(text), pat)

\* r'<script.*?>.*?</script>': from a script start tag to the first script
\* end tag after it
IsScriptOpen(tok) == tok.kind = "open" /\ tok.tag = "script"
IsScriptClose(tok) == tok.kind = "close" /\ tok.tag = "script"

RECURSIVE SubScriptBlocks(_)
SubScriptBlocks(text) ==
    IF text = <<>> THEN <<>>
    ELSE IF /\ IsScriptOpen(Head(text))
            /\ \E j \in 2..Len(text) : IsScriptClose(text[j])
         THEN LET j == CHOOSE m \in 2..Len(text) :
                         /\ IsScriptClose(text[m])
                         /\ \A n \in 2..(m - 1) : ~IsScriptClose(text[n])
              IN SubScriptBlocks(SubSeq(text, j + 1, Len(text)))
         ELSE <<Head(text)>> \o SubScriptBlocks(Tail(text))

\* the patterns of dangerous_patterns that the pieces of the model spell:
\* r'javascript:' and, after it in the list, r'XSS'
DangerousPatterns == << <<Text("java"), Text("script:")>>, <<Text("XSS")>> >>

RECURSIVE SweepFrom(_, _)
SweepFrom(text, i) ==
    IF i > Len(DangerousPatterns) THEN text
    ELSE SweepFrom(SubLiteral(text, DangerousPatterns[i]), i + 1)

FinalSweep(text) == SweepFrom(SubScriptBlocks(text), 1)

---------------------------------------------------------------------------
(* HTMLSanitizer.sanitize *)

SanitizePasses(doc) == FinalSweep(HtmlSanitizerPass(BleachClean(doc)))

\* the except clause: bleach.clean(html_content, tags=[], attributes={},
\* strip=True), every tag stripped and the text kept
StripAllMarkup(doc) == SelectSeq(doc, LAMBDA tok : tok.kind = "text")

\* What may fail inside the try block: f.pass names the pass that raises, and
\* f.fallback says that the bleach.clean of the except clause raises as well,
\* which the same library on the same input can do only when its first call
\* was the one that raised.
NoFault == [pass |-> "none", fallback |-> FALSE]

SanitizeFaults ==
    { f \in [pass : {"none", "bleach", "html_sanitizer", "sweep"}, fallback : BOOLEAN] :
        f.fallback => f.pass = "bleach" }

\* the passes that had completed when pass p raised
PassesBefore(p) ==
    CASE p = "bleach" -> {}
      [] p = "html_sanitizer" -> {"bleach"}
      [] p = "sweep" -> {"bleach", "html_sanitizer"}
      [] OTHER -> {"bleach", "html_sanitizer", "sweep"}

SanitizeHtmlAtLimit(doc, f) ==
    IF doc = <<>> THEN [raised |-> "none", text |-> <<>>, ran |-> {}, fault |-> "none"]
    ELSE IF ContentLength(doc) >= MAX_TEXT_LENGTH
         THEN [raised |-> "ValueError", text |-> <<>>, ran |-> {}, fault |-> "none"]
         ELSE [raised |-> "none", text |-> SanitizePasses(doc),
               ran |-> PassesBefore("none"), fault |-> "none"]

\* the result: the text returned or the exception raised, the passes that
\* ran and the pass that failed
SanitizeHtml(doc, f) ==
    IF doc = <<>> THEN [raised |-> "none", text |-> <<>>, ran |-> {}, fault |-> "none"]
    ELSE IF ContentLength(doc) > MAX_TEXT_LENGTH
         THEN [raised |-> "ValueError", text |-> <<>>, ran |-> {}, fault |-> "none"]
    ELSE IF f.pass = "none"
         THEN [raised |-> "none", text |-> SanitizePasses(doc),
               ran |-> PassesBefore("none"), fault |-> "none"]
    ELSE IF f.fallback
         THEN [raised |-> "Exception", text |-> <<>>,
               ran |-> PassesBefore(f.pass), fault |-> f.pass]
         ELSE [raised |-> "none", text |-> StripAllMarkup(doc),
               ran |-> PassesBefore(f.pass), fault |-> f.pass]

SanitizeOnce ==
    /\ san.pc = "start"
    /\ \E f \in SanitizeFaults :
         LET r == SanitizeHtml(san.input, f)
         IN san' = [san EXCEPT !.pc = IF r.raised = "none" THEN "once" ELSE "raised",
                               !.out = r.text, !.raised = r.raised, !.ran = r.ran,
                               !.fault = r.fault]
    /\ UNCHANGED <<cache_vars, css, thr>>

\* the second call, which meets no failure
SanitizeAgain ==
    /\ san.pc = "once"
    /\ LET r == SanitizeHtml(san.out, NoFault)
       IN san' = [san EXCEPT !.pc = IF r.raised = "none" THEN "twice" ELSE "raised",
                             !.again = r.text]
    /\ UNCHANGED <<cache_vars, css, thr>>

---------------------------------------------------------------------------
(* CSS texts: the sequence of their tokens (white space left out)          *)

MaxCssLen == 5

CssIdents == {"color", "COLOR", "position", "behavior", "red"}
CssTokens == CssIdents \cup {":", ";", "{", "}"}

\* no braces, or blocks that are closed and not nested
RECURSIVE BracesFlat(_, _)
BracesFlat(text, open) ==
    IF text = <<>> THEN ~open
    ELSE CASE Head(text) = "{" -> ~open /\ BracesFlat(Tail(text), TRUE)
           [] Head(text) = "}" -> open /\ BracesFlat(Tail(text), FALSE)
           [] OTHER -> BracesFlat(Tail(text), open)

\* lists of two declarations, with and without the closing ';'; a value is
\* made of a keyword, of a url() that the safe-URL pattern refuses, of
\* "long", a component of CSS_VALUE_CEILING characters, and of "huge", which
\* is "long" and one character more
CssValues ==
    { <<"red">>, <<"url(evil.htc)">>, <<"red", "url(evil.htc)">>,
      <<"long">>, <<"huge">>, <<"long", "red">> }

CssDeclarations == { <<n, ":">> \o v : n \in CssIdents, v \in CssValues }

DeclarationLists ==
    { d1 \o <<";">> \o d2 \o tail :
        d1 \in CssDeclarations, d2 \in CssDeclarations, tail \in {<<>>, <<";">>} }

CssInputs ==
    { t \in UNION { [1..n -> CssTokens] : n \in 0..MaxCssLen } : BracesFlat(t, FALSE) }
    \cup DeclarationLists

Occurs(tok, text) == \E i \in 1..Len(text) : text[i] = tok

\* self.allowed_properties
AllowedCssProperties ==
    {"color", "font-family", "font-size", "font-weight", "font-style",
     "line-height", "letter-spacing", "text-align", "text-decoration",
     "text-transform", "text-indent", "word-spacing",
     "margin", "margin-top", "margin-right", "margin-bottom", "margin-left",
     "padding", "padding-top", "padding-right", "padding-bottom", "padding-left",
     "border", "border-radius", "width", "height", "max-width", "max-height",
     "min-width", "min-height", "display", "overflow", "overflow-x", "overflow-y",
     "background", "background-color", "background-image", "background-size",
     "background-position", "background-repeat", "opacity", "box-shadow",
     "border-color", "border-style", "border-width",
     "flex", "flex-direction", "justify-content", "align-items", "align-content",
     "flex-wrap", "gap", "transition", "transform"}

\* str.lower() on the identifiers of the model
LowerCss(name) == IF name = "COLOR" THEN "color" ELSE name

\* self.dangerous_regex.search: of its patterns the tokens of the model spell
\* r'behavior\s*:'
DangerousCss(text) ==
    \E i \in 1..(Len(text) - 1) : text[i] = "behavior" /\ text[i + 1] = ":"

---------------------------------------------------------------------------
(* tinycss2.parse_declaration_list: the text is cut at each ';', and a     *)
(* piece is a declaration when it is an identifier, a ':' and a value;     *)
(* any other piece is a parse error, which the callers skip                *)

RECURSIVE SplitAt(_, _)
SplitAt(text, sep) ==
    IF ~Occurs(sep, text) THEN <<text>>
    ELSE LET i == CHOOSE j \in 1..Len(text) :
                    text[j] = sep /\ \A m \in 1..(j - 1) : text[m] # sep
         IN <<SubSeq(text, 1, i - 1)>> \o SplitAt(SubSeq(text, i + 1, Len(text)), sep)

IsDeclaration(piece) ==
    Len(piece) >= 2 /\ piece[1] \in CssIdents /\ piece[2] = ":"

Declaration(piece) == [name |-> piece[1], value |-> SubSeq(piece, 3, Len(piece))]

RECURSIVE SelectDeclarations(_)
SelectDeclarations(pieces) ==
    IF pieces = <<>> THEN <<>>
    ELSE IF IsDeclaration(Head(pieces))
         THEN <<Declaration(Head(pieces))>> \o SelectDeclarations(Tail(pieces))
         ELSE SelectDeclarations(Tail(pieces))

ParseDeclarationList(text) == SelectDeclarations(SplitAt(text, ";"))

\* tinycss2.parse_stylesheet: a qualified rule is a prelude and the block
\* that follows it; what follows the last block is a parse error
RECURSIVE ParseStylesheet(_)
ParseStylesheet(text) ==
    IF ~Occurs("{", text) THEN <<>>
    ELSE LET i == CHOOSE j \in 1..Len(text) :
                    text[j] = "{" /\ \A m \in 1..(j - 1) : text[m] # "{"
             after == SubSeq(text, i + 1, Len(text))
             e == CHOOSE j \in 1..Len(after) :
                    after[j] = "}" /\ \A m \in 1..(j - 1) : after[m] # "}"
         IN <<[prelude |-> SubSeq(text, 1, i - 1), content |-> SubSeq(after, 1, e - 1)]>>
            \o ParseStylesheet(SubSeq(after, e + 1, Len(after)))

---------------------------------------------------------------------------
(* CSSSanitizer *)

CSS_VALUE_CEILING == 200

AnyDeclarationSafe(decl) == TRUE

IsSafeDeclaration(decl) == LowerCss(decl.name) \in AllowedCssProperties

\* the characters of a value: its tokens and a space between two of them
RECURSIVE CssLength(_)
CssLength(value) ==
    IF value = <<>> THEN 0
    ELSE (IF Head(value) \in {":", ";", "{", "}"} THEN 1
          ELSE IF Head(value) = "red" THEN 3
          ELSE IF Head(value) \in {"color", "COLOR"} THEN 5
          ELSE IF Head(value) = "url(evil.htc)" THEN 13
          ELSE IF Head(value) = "long" THEN CSS_VALUE_CEILING
          ELSE IF Head(value) = "huge" THEN CSS_VALUE_CEILING + 1
          ELSE 8)
         + (IF Len(value) > 1 THEN 1 ELSE 0) + CssLength(Tail(value))

NoTruncation(value) == value

\* value[:200]: the components are kept while the ceiling is not passed, and
\* of "huge" its first 200 characters, which are "long"; the values of the
\* model have their 200th character nowhere else than at the end of a
\* component
RECURSIVE TruncateValue(_)
TruncateValue(value) ==
    IF CssLength(value) <= CSS_VALUE_CEILING THEN value
    ELSE IF Len(value) = 1
         THEN (IF Head(value) = "huge" THEN <<"long">> ELSE <<>>)
         ELSE TruncateValue(SubSeq(value, 1, Len(value) - 1))

ValidatePropertySpecific(value) ==
    IF CssLength(value) > CSS_VALUE_CEILING THEN TruncateValue(value) ELSE value

\* url_pattern.sub(validate_url, value_string): a url() whose address does
\* not match safe_url_pattern is cut out of the value
SafeUrl(tok) == tok # "url(evil.htc)"

DropUnsafeUrls(value) == SelectSeq(value, SafeUrl)

\* an empty result drops the declaration
SanitizeValue(value) ==
    IF DangerousCss(value) THEN <<>>
    ELSE ValidatePropertySpecific(DropUnsafeUrls(value))

\* the loop of _sanitize_inline_styles and of _sanitize_declarations, and
\* its "; ".join
RECURSIVE JoinDeclarations(_)
JoinDeclarations(decls) ==
    IF decls = <<>> THEN <<>>
    ELSE LET d == Head(decls)
             rest == JoinDeclarations(Tail(decls))
         IN IF IsSafeDeclaration(d) /\ SanitizeValue(d.value) # <<>>
            THEN <<d.name, ":">> \o SanitizeValue(d.value)
                 \o (IF rest = <<>> THEN <<>> ELSE <<";">> \o rest)
            ELSE rest

SanitizeInlineStyles(text) == JoinDeclarations(ParseDeclarationList(text))

SanitizeDeclarations(content) == JoinDeclarations(ParseDeclarationList(content))

\* of the selector patterns the tokens of the model spell none
IsSafeSelector(prelude) ==
    ~\E i \in 1..(Len(prelude) - 1) : prelude[i] = "javascript" /\ prelude[i + 1] = ":"

RECURSIVE JoinRules(_)
JoinRules(rules) ==
    IF rules = <<>> THEN <<>>
    ELSE LET r == Head(rules)
             declarations == SanitizeDeclarations(r.content)
         IN (IF IsSafeSelector(r.prelude) /\ declarations # <<>>
             THEN r.prelude \o <<"{">> \o declarations \o <<"}">>
             ELSE <<>>)
            \o JoinRules(Tail(rules))

SanitizeStylesheet(text) == JoinRules(ParseStylesheet(text))

SanitizeCss(text) ==
    IF text = <<>> THEN <<>>
    ELSE IF DangerousCss(text) THEN <<>>
    ELSE IF Occurs("{", text) /\ Occurs("}", text)
         THEN SanitizeStylesheet(text)
         ELSE SanitizeInlineStyles(text)

SanitizeCssCall ==
    /\ css.pc = "start"
    /\ css' = [css EXCEPT !.pc = "done", !.out = SanitizeCss(css.input)]
    /\ UNCHANGED <<cache_vars, san, thr>>

\* the declarations a CSS parser finds in a filtered text
RECURSIVE RuleDeclarations(_)
RuleDeclarations(rules) ==
    IF rules = <<>> THEN <<>>
    ELSE ParseDeclarationList(Head(rules).content) \o RuleDeclarations(Tail(rules))

OutputDeclarations(text) ==
    IF Occurs("{", text) THEN RuleDeclarations(ParseStylesheet(text))
    ELSE ParseDeclarationList(text)

\* the declarations of a list whose value holds no url() that the
\* safe-URL pattern refuses
UrlSafeDeclarations(decls) ==
    SelectSeq(decls, LAMBDA d : \A i \in 1..Len(d.value) : SafeUrl(d.value[i]))

InitHtml ==
    /\ memory_cache = Empty
    /\ disk_avail = FALSE
    /\ disk_store = Empty
    /\ redis_avail = FALSE
    /\ redis_store = Empty
    /\ stats = ZeroStats
    /\ now = 0
    /\ calls = 0
    /\ last = NoCall
    /\ latest = [k \in PhysKeys |-> NeverSet]
    /\ san \in { [SanIdle EXCEPT !.pc = "start", !.input = d] : d \in HtmlInputs }
    /\ css = CssIdle
    /\ thr = ThrIdle

NextHtml == SanitizeOnce \/ SanitizeAgain

SpecHtml == InitHtml /\ [][NextHtml]_vars

InitCss ==
    /\ memory_cache = Empty
    /\ disk_avail = FALSE
    /\ disk_store = Empty
    /\ redis_avail = FALSE
    /\ redis_store = Empty
    /\ stats = ZeroStats
    /\ now = 0
    /\ calls = 0
    /\ last = NoCall
    /\ latest = [k \in PhysKeys |-> NeverSet]
    /\ san = SanIdle
    /\ css \in { [pc |-> "start", input |-> t, out |-> <<>>] : t \in CssInputs }
    /\ thr = ThrIdle

NextCss == SanitizeCssCall

SpecCss == InitCss /\ [][NextCss]_vars

---------------------------------------------------------------------------
(* Properties of the CacheManager                                          *)

TheKey == NormalizeKey(<<"A", " ">>)

\* the entry the latest set of k built
LatestEntry(k) == MakeEntry(latest[k].value, latest[k].time, latest[k].ttl)

\* C1: a get(k) made after set(k, v, ttl), before ttl has elapsed and with
\* no delete, clear or other set of k in between, returns v, whatever
\* happened to the writes of the disk and the redis tier.
C1_SetThenGet ==
    (/\ last.op = "get"
     /\ latest[last.key].kind = "set"
     /\ now - latest[last.key].time <= latest[last.key].ttl)
    => last.value = latest[last.key].value

\* C1: a get right after a set whose disk and redis writes both failed
C1_Witness ==
    /\ last.op = "get"
    /\ calls = 2
    /\ latest[last.key].kind = "set"
    /\ latest[last.key].time = now
    /\ latest[last.key].ttl = 1
    /\ last.value = Str("v1")
    /\ latest[last.key].value = Str("v1")
    /\ disk_avail /\ last.key \notin DOMAIN disk_store
    /\ redis_avail /\ last.key \notin DOMAIN redis_store

\* C2: once more than ttl seconds have passed since the latest set(k, v, ttl),
\* get(k) returns the default.
C2_ExpiredGetMisses ==
    (/\ last.op = "get"
     /\ latest[last.key].kind = "set"
     /\ now - latest[last.key].time > latest[last.key].ttl)
    => last.value = NoneValue

\* a completed get step
GetStep == last'.op = "get" /\ calls' = calls + 1

\* C3: a get answered by the disk or the redis tier leaves a copy of the
\* entry in every faster tier, and the get of the same key that follows at
\* once is answered by the memory tier: it counts one memory hit, no other
\* counter moves and no slower tier is read or written.
C3_Step ==
    /\ (GetStep /\ last'.tier = "disk")
        => /\ last'.key \in DOMAIN memory_cache'
           /\ memory_cache'[last'.key] = disk_store[last'.key].entry
    /\ (GetStep /\ last'.tier = "redis")
        => /\ last'.key \in DOMAIN memory_cache'
           /\ memory_cache'[last'.key] = JsonLoads(redis_store[last'.key].json)
           /\ disk_avail => /\ last'.key \in DOMAIN disk_store'
                            /\ disk_store'[last'.key].entry
                                 = JsonLoads(redis_store[last'.key].json)
    /\ (GetStep /\ last.op = "get" /\ last.tier \in {"disk", "redis"}
          /\ last'.key = last.key)
        => /\ last'.tier = "memory"
           /\ last'.probed = {"memory"}
           /\ last'.value = last.value
           /\ stats' = [stats EXCEPT !.hits = @ + 1, !.memory_hits = @ + 1]
           /\ disk_store' = disk_store
           /\ redis_store' = redis_store

C3_Promotion == [][C3_Step]_vars

\* C3: the second of two gets, the first answered by redis and copied to disk
C3_Witness ==
    /\ last.op = "get"
    /\ last.follows = "redis"
    /\ last.tier = "memory"
    /\ stats.redis_hits = 1 /\ stats.memory_hits = 1
    /\ disk_avail /\ last.key \in DOMAIN disk_store
    /\ disk_store[last.key].entry = memory_cache[last.key]

\* the entries of key k held by the tiers
TierEntries(k) ==
    (IF k \in DOMAIN memory_cache THEN {memory_cache[k]} ELSE {})
    \cup (IF k \in DOMAIN disk_store THEN {disk_store[k].entry} ELSE {})
    \cup (IF k \in DOMAIN redis_store THEN {JsonLoads(redis_store[k].json)} ELSE {})

\* C8: a get never changes the timestamp or the ttl stored for a key: every
\* entry a tier holds after a get is one that some tier held for that key
\* before it, and a value is returned only from an entry whose own
\* timestamp + ttl has not passed.
C8_Step ==
    GetStep =>
        /\ \A k \in PhysKeys :
            /\ k \in DOMAIN memory_cache' => memory_cache'[k] \in TierEntries(k)
            /\ k \in DOMAIN disk_store' => disk_store'[k].entry \in TierEntries(k)
        /\ redis_store' = redis_store
        /\ last'.ok => \E e \in TierEntries(last'.key) :
                          /\ e.value = last'.value
                          /\ now - e.timestamp <= e.ttl

C8_NoRefreshOnRead == [][C8_Step]_vars

\* C8: a promotion made after the clock has moved keeps the old timestamp
C8_Witness ==
    /\ last.op = "get"
    /\ last.tier \in {"disk", "redis"}
    /\ last.key \in DOMAIN memory_cache
    /\ memory_cache[last.key].timestamp < now

\* C9: after delete(k), and until the next set(k), no tier holds k and
\* get(k) returns the default.
C9_DeletedEverywhere ==
    \A k \in PhysKeys :
        latest[k].kind = "deleted"
        => /\ k \notin DOMAIN memory_cache
           /\ k \notin DOMAIN disk_store
           /\ k \notin DOMAIN redis_store
           /\ (last.op = "get" /\ last.key = k) => last.value = NoneValue

\* C10: set returns success and leaves its new entry in the memory tier
\* whatever the slower writes did; every available slower tier is attempted
\* in order, and each tier whose own write did not raise holds the new entry,
\* also when the tier before it failed.
C10_SetIndependentTiers ==
    last.op = "set"
    => /\ last.ok
       /\ last.key \in DOMAIN memory_cache
       /\ memory_cache[last.key] = LatestEntry(last.key)
       /\ last.attempted = SetAttempted
       /\ (disk_avail /\ "disk" \notin last.failed)
            => /\ last.key \in DOMAIN disk_store
               /\ disk_store[last.key].entry = LatestEntry(last.key)
       /\ (redis_avail /\ "redis" \notin last.failed)
            => /\ last.key \in DOMAIN redis_store
               /\ redis_store[last.key].json = JsonDumps(LatestEntry(last.key))

\* C10: the disk write raised and the redis write was still made
C10_Witness ==
    /\ last.op = "set"
    /\ last.ok
    /\ last.failed = {"disk"}
    /\ redis_avail
    /\ last.key \in DOMAIN redis_store
    /\ redis_store[last.key].json = JsonDumps(LatestEntry(last.key))
    /\ memory_cache[last.key] = LatestEntry(last.key)

C13_ClearedEverywhere ==
    \A k \in PhysKeys :
        latest[k].kind = "cleared"
        => /\ k \notin DOMAIN memory_cache
           /\ k \notin DOMAIN disk_store
           /\ k \notin DOMAIN redis_store
           /\ (last.op = "get" /\ last.key = k) => last.value = NoneValue

\* C14: after get(k) returns, no tier it probed still serves an expired
\* entry of k.
C14_ExpiredDeletedOnProbe ==
    last.op = "get" =>
        /\ ("memory" \in last.probed /\ last.key \in DOMAIN memory_cache)
              => ~IsExpired(memory_cache[last.key], now)
        /\ ("disk" \in last.probed /\ DiskVisible(disk_store, last.key, now))
              => ~IsExpired(disk_store[last.key].entry, now)
        /\ ("redis" \in last.probed /\ RedisVisible(redis_store, last.key, now))
              => ~IsExpired(JsonLoads(redis_store[last.key].json), now)

\* the physical key the claim gives to the key a value was stored for
ExpectedPhys(tag) ==
    CASE tag = "long-b" -> Sha256Hex(LongKey)
      [] tag = "long-B" -> Sha256Hex(LongKeyUpper)
      [] tag = "short" -> <<"a", "_">>

\* C15: a key longer than 250 characters is stored under its 64-digit hash,
\* any other key under its lower-cased, underscored form, identically in the
\* three tiers; a get returns a value exactly when that value was set under
\* the physical key the get maps to.
C15_OnePhysicalKey ==
    /\ \A p \in DOMAIN latest :
          latest[p].kind = "set" => p = ExpectedPhys(latest[p].value.data)
    /\ \A p \in DOMAIN memory_cache : p = ExpectedPhys(memory_cache[p].value.data)
    /\ \A p \in DOMAIN disk_store : p = ExpectedPhys(disk_store[p].entry.value.data)
    /\ \A p \in DOMAIN redis_store : p = ExpectedPhys(JsonLoads(redis_store[p].json).value.data)
    /\ \A p \in DOMAIN latest :
          Len(p) = DIGEST_WIDTH \/ Len(p) <= KEY_HASH_LIMIT
    /\ last.op = "get" =>
          /\ last.value.kind # "none" => last.key = ExpectedPhys(last.value.data)
          /\ latest[last.key].kind = "set" => last.value = latest[last.key].value
          /\ latest[last.key].kind = "none" => last.value.kind = "none"

C15_Witness ==
    /\ last.op = "get"
    /\ last.key = Sha256Hex(LongKey)
    /\ last.value = Str("long-b")
    /\ latest[<<"a", "_">>].kind = "set"
    /\ latest[Sha256Hex(LongKeyUpper)].kind = "none"

\* C23: each get increments exactly one of misses and hits, and on a hit
\* exactly the counter of the tier that answered; set, delete, clear and
\* cleanup_expired leave every counter unchanged; so hits is the sum of the
\* per-tier hit counters and total_requests grows by one with each get.
C23_Step ==
    /\ GetStep =>
          /\ last'.tier = "none" => stats' = [stats EXCEPT !.misses = @ + 1]
          /\ last'.tier = "memory"
                => stats' = [stats EXCEPT !.hits = @ + 1, !.memory_hits = @ + 1]
          /\ last'.tier = "disk"
                => stats' = [stats EXCEPT !.hits = @ + 1, !.disk_hits = @ + 1]
          /\ last'.tier = "redis"
                => stats' = [stats EXCEPT !.hits = @ + 1, !.redis_hits = @ + 1]
          /\ TotalRequests(stats') = TotalRequests(stats) + 1
    /\ ~GetStep => stats' = stats
    /\ stats'.hits = stats'.memory_hits + stats'.disk_hits + stats'.redis_hits

C28_NoStaleValue ==
    (last.op = "get" /\ last.value # NoneValue)
    => /\ latest[last.key].kind = "set"
       /\ last.value = latest[last.key].value

\* C29: a get that adds k to the memory tier is a hit: it returns the value
\* of the entry it added and counts a hit of the tier that held the entry,
\* also when the promotion write into the disk tier raises; and a get that
\* reports a miss leaves no entry of k in the memory tier.
C29_Step ==
    GetStep =>
        LET k == last'.key IN
        /\ (k \in DOMAIN memory_cache'
              /\ (k \notin DOMAIN memory_cache \/ memory_cache'[k] # memory_cache[k]))
            => /\ last'.tier \in {"disk", "redis"}
               /\ last'.value = memory_cache'[k].value
               /\ stats'.hits = stats.hits + 1
        /\ last'.tier = "none" => k \notin DOMAIN memory_cache'

C29_PromotionIsHit == [][C29_Step]_vars

\* C12: whatever the interleaving of the threads' get, set, delete and
\* cleanup_expired calls, no call raises.
C12_NoThreadRaises == \A t \in Threads : thr[t].pc # "raised"

\* the calls of a kind that the threads have completed together
CompletedSets == thr["t1"].sets + thr["t2"].sets
CompletedGets == thr["t1"].gets + thr["t2"].gets

\* C21: every set and every get counts as a request: once the threads have
\* together completed n set calls and n get calls, total_requests is at
\* least 2n.
C21_SetsAndGetsCounted ==
    (/\ \A t \in Threads : thr[t].pc \in {"idle", "raised"}
     /\ CompletedSets = CompletedGets)
    => TotalRequests(stats) >= 2 * CompletedSets

\* C30: the counters lose no update: once the threads have finished their
\* get calls, hits + misses is the number of get calls made, whatever the
\* interleaving of the increments.
C30_NoLostUpdate ==
    (\A t \in Threads : thr[t].pc = "idle") => stats.hits + stats.misses = CompletedGets

---------------------------------------------------------------------------
(* Properties of the HTML sanitizer                                        *)

HasScriptTag(doc) ==
    \E i \in 1..Len(doc) : doc[i].kind = "open" /\ doc[i].tag = "script"

HasJavascriptUrl(doc) ==
    \/ \E i \in 1..(Len(doc) - 1) : doc[i] = Text("java") /\ doc[i + 1] = Text("script:")
    \/ \E i \in 1..Len(doc) :
          doc[i].kind = "open" /\ \E a \in doc[i].attrs : a[2] = "javascript:x"

HasEventHandler(doc) ==
    \E i \in 1..Len(doc) :
        doc[i].kind = "open" /\ \E a \in doc[i].attrs : a[1] = "onclick"

\* C4: for an input that holds a script element, the text "javascript:" or an
\* event-handler attribute, the output of sanitize holds none of them.
C4_NoDangerousSubstring ==
    (/\ san.pc \in {"once", "twice"}
     /\ san.fault = "none"
     /\ (HasScriptTag(san.input) \/ HasJavascriptUrl(san.input) \/ HasEventHandler(san.input))) =>
        ~(HasScriptTag(san.out) \/ HasJavascriptUrl(san.out) \/ HasEventHandler(san.out))

\* C5: sanitizing an output of sanitize again gives that output back.
C5_Idempotent == (san.pc = "twice" /\ san.fault = "none") => san.again = san.out

AttributeListed(tok, a) == a[1] \in AllowedHtmlAttributes(tok.tag) \cup WildcardHtmlAttributes

InsideScript(doc, i) ==
    \E j \in 1..(i - 1) :
        IsScriptOpen(doc[j]) /\ \A m \in (j + 1)..(i - 1) : ~IsScriptClose(doc[m])

\* C16: the text between the tags of a script element does not appear in
\* the output: a text that the input holds inside script elements only is
\* absent from the output.
C16_ScriptContentDropped ==
    (san.pc = "once" /\ san.fault = "none") =>
        \A a \in TextAtoms :
            (\A i \in 1..Len(san.input) :
                 san.input[i] = Text(a) => InsideScript(san.input, i))
            => \A i \in 1..Len(san.out) : san.out[i] # Text(a)

\* C17: an href or src attribute of the output holds an http:// or https://
\* URL (or a data:image one, which the model does not spell).
C17_OnlySafeUrlSchemes ==
    (san.pc = "once" /\ san.fault = "none") =>
        \A i \in 1..Len(san.out) :
            san.out[i].kind = "open" =>
                \A a \in san.out[i].attrs :
                    a[1] \in UrlAttributes => UrlScheme(a[2]) \in {"http", "https"}

AllPasses == {"bleach", "html_sanitizer", "sweep"}

\* C19: sanitize raises ValueError exactly when the input is longer than
\* max_text_length; it then has run no pass; an input within the limit, the
\* limit included, goes through the passes whole.
C19_LengthLimit ==
    san.pc \in {"once", "twice", "raised"} =>
        /\ san.raised = "ValueError" <=> ContentLength(san.input) > MAX_TEXT_LENGTH
        /\ san.raised = "ValueError" => (san.ran = {} /\ san.out = <<>>)
        /\ (san.raised = "none" /\ san.fault = "none" /\ san.input # <<>>)
              => (san.ran = AllPasses /\ san.out = SanitizePasses(san.input))

C19_Witness ==
    /\ san.pc = "raised"
    /\ san.raised = "ValueError"
    /\ ContentLength(san.input) = MAX_TEXT_LENGTH + 1

\* C20: when a pass of sanitize fails, sanitize raises nothing and returns
\* a text without any tag.
C20_FailSafe ==
    (san.pc \in {"once", "twice", "raised"} /\ san.fault # "none") =>
        /\ san.raised = "none"
        /\ \A i \in 1..Len(san.out) : san.out[i].kind = "text"

\* C22: an input made only of allowed tags, allowed attributes and text
\* passes through sanitize with every tag and every text kept, in order.
C22_SafeHtmlUnchanged ==
    LET Safe(tok) ==
            \/ tok.kind = "text"
            \/ /\ tok.tag \in AllowedHtmlTags
               /\ \A a \in tok.attrs : AttributeListed(tok, a) /\ BleachUriAllowed(a)
        Shape(doc) == [i \in 1..Len(doc) |-> <<doc[i].kind, doc[i].tag, doc[i].text>>]
    IN (/\ san.pc = "once"
        /\ san.fault = "none"
        /\ \A i \in 1..Len(san.input) : Safe(san.input[i]))
       => Shape(san.out) = Shape(san.input)

\* C24: the text sanitize returns holds no match of a pattern of the
\* pre-check list: no "javascript:", no "vbscript:", no script tag and no
\* event-handler attribute.
C24_NoBlockedPatternLeft ==
    (san.pc = "once" /\ san.fault = "none") =>
        /\ \A p \in 1..Len(SuspiciousPatterns) :
              LET pat == SuspiciousPatterns[p]
              IN ~\E i \in 1..(Len(san.out) - Len(pat) + 1) :
                     SubSeq(san.out, i, i + Len(pat) - 1) = pat
        /\ ~HasScriptTag(san.out)
        /\ ~HasEventHandler(san.out)

\* C25: a style attribute on an allowed element that holds a text is kept,
\* with the declarations the CSS filter lets through, unless the filter lets
\* none through.
C25_StyleKeptFiltered ==
    LET StyleTokens(v) == IF v = "color: red" THEN <<"color", ":", "red">> ELSE <<>>
    IN (san.pc = "once" /\ san.fault = "none") =>
        \A i \in 1..(Len(san.input) - 1) :
            (/\ san.input[i].kind = "open"
             /\ san.input[i].tag \in AllowedHtmlTags
             /\ san.input[i + 1] = Text("x")
             /\ \E a \in san.input[i].attrs :
                   a[1] = "style" /\ SanitizeCss(StyleTokens(a[2])) # <<>>)
            => \E j \in 1..Len(san.out) :
                  /\ san.out[j].kind = "open"
                  /\ san.out[j].tag = san.input[i].tag
                  /\ \E a \in san.out[j].attrs : a[1] = "style" /\ a[2] # ""

---------------------------------------------------------------------------
(* Properties of the CSS sanitizer                                         *)

C18_PerDeclarationRejection ==
    (css.pc = "done" /\ css.input \in DeclarationLists) =>
        \A i \in 1..Len(ParseDeclarationList(css.input)) :
            LET d == ParseDeclarationList(css.input)[i]
            IN (IsSafeDeclaration(d) /\ d.value # <<>> /\ SanitizeValue(d.value) = d.value)
               => \E j \in 1..Len(OutputDeclarations(css.out)) :
                     OutputDeclarations(css.out)[j] = d

C26_UnsafeUrlDropsDeclaration ==
    css.pc = "done" =>
        /\ Len(OutputDeclarations(css.out))
              <= Len(UrlSafeDeclarations(OutputDeclarations(css.input)))
        /\ \A i \in 1..Len(css.out) : SafeUrl(css.out[i])

\* C27: every value of the output has at most 200 characters, and a
\* declaration of an allowed property whose value is longer (and has no
\* unsafe url() and no dangerous pattern) is kept, with the first 200
\* characters of its value.
C27_ValueCeiling ==
    css.pc = "done" =>
        LET ins == OutputDeclarations(css.input)
            outs == OutputDeclarations(css.out)
        IN /\ \A i \in 1..Len(outs) : CssLength(outs[i].value) <= CSS_VALUE_CEILING
           /\ \A i \in 1..Len(ins) :
                (/\ ~DangerousCss(css.input)
                 /\ IsSafeDeclaration(ins[i])
                 /\ ins[i].value \in {<<"huge">>, <<"long", "red">>})
                => \E j \in 1..Len(outs) :
                      /\ outs[j].name = ins[i].name
                      /\ outs[j].value = <<"long">>

\* C27: a value of 201 characters has been cut, the declaration after it
\* left as it was
C27_Witness ==
    /\ css.pc = "done"
    /\ css.input = <<"color", ":", "huge", ";", "COLOR", ":", "red">>
    /\ css.out = <<"color", ":", "long", ";", "COLOR", ":", "red">>

====
